---- MODULE Spec2Model ----
(***************************************************************************)
(* Model of the wallet-timeline engine of useWalletTimeline.ts: the        *)
(* vesting model (calculateLockedAmount), the balance accumulator          *)
(* (buildBalanceTimeline), the timeline extender and the summary           *)
(* derivation (parseWalletTimeline).                                       *)
(*                                                                         *)
(* Amounts are integers counted in 1/Resolution of 10^-6 token, so that    *)
(* the 6-decimal rounding of the code is a real rounding.  Instants are    *)
(* integers in milliseconds (Date.getTime()).  A JavaScript number that is *)
(* NaN or Infinity is one of two reserved integers that only the Js*       *)
(* operators below read.                                                   *)
(***************************************************************************)
EXTENDS Integers, Sequences, FiniteSets, TLC

\* ------------------------------------------------------------------------
\* JavaScript numbers
\* ------------------------------------------------------------------------

\* Number of model units in 10^-6 token (the grid Math.round(x * 1000000) keeps).
Resolution == 2

NaN == -2000000000
Infinity == 2000000000

IsNum(x) == x # NaN /\ x # Infinity

\* a + b
JsAdd(a, b) ==
  IF a = NaN \/ b = NaN THEN NaN
  ELSE IF a = Infinity \/ b = Infinity THEN Infinity
  ELSE a + b

\* a - b, for a finite or NaN
JsSub(a, b) ==
  IF a = NaN \/ b = NaN THEN NaN
  ELSE a - b

\* a < b : every comparison with NaN is false
JsLT(a, b) ==
  /\ a # NaN
  /\ b # NaN
  /\ a # Infinity
  /\ (b = Infinity \/ a < b)

\* a <= b
JsLE(a, b) ==
  /\ a # NaN
  /\ b # NaN
  /\ (b = Infinity \/ (a # Infinity /\ a <= b))

\* a > 0, as in the guard of line 203
JsPositive(a) == a # NaN /\ (a = Infinity \/ a > 0)

\* Math.min(a, b)
MathMin(a, b) ==
  IF a = NaN \/ b = NaN THEN NaN
  ELSE IF a = Infinity THEN b
  ELSE IF b = Infinity THEN a
  ELSE IF a < b THEN a ELSE b

\* Math.max(a, b)
MathMax(a, b) ==
  IF a = NaN \/ b = NaN THEN NaN
  ELSE IF a = Infinity \/ b = Infinity THEN Infinity
  ELSE IF a > b THEN a ELSE b

\* Math.abs(a)
MathAbs(a) == IF ~IsNum(a) THEN a ELSE IF a < 0 THEN -a ELSE a

\* Math.round(x * 1000000) / 1000000 : to the nearest 10^-6, a half goes up.
Round6(x) ==
  IF ~IsNum(x) THEN x
  ELSE ((2 * x + Resolution) \div (2 * Resolution)) * Resolution

\* ------------------------------------------------------------------------
\* Timestamps
\* ------------------------------------------------------------------------

MsPerHour == 3600000
HoursPerDay == 24
MsPerDay == MsPerHour * HoursPerDay

\* A timestamp string is [ms, fmt]: the instant it denotes and the way it is
\* written.  "offset" is YYYY-MM-DDTHH:MM:SS+00:00, "ms" is
\* YYYY-MM-DDTHH:MM:SS.000Z (Date.toISOString), "Z" is YYYY-MM-DDTHH:MM:SSZ
\* (the coverage-end timestamp), "bad" is a string that is no date.
\* Every instant of the model is a whole second.
Formats == {"offset", "ms", "Z"}

Stamp(ms, fmt) == [ms |-> ms, fmt |-> fmt]

BadStamp == [ms |-> 0, fmt |-> "bad"]

\* new Date(s).getTime()
DateParse(s) == IF s.fmt = "bad" THEN NaN ELSE s.ms

\* new Date(ms).toISOString()
ToISOString(ms) == Stamp(ms, "ms")

\* The character that follows the seconds: '+' < '.' < 'Z'.
FmtRank(fmt) == CASE fmt = "offset" -> 0 [] fmt = "ms" -> 1 [] fmt = "Z" -> 2

\* a < b as strings (code-unit order); a string that is no date starts with
\* a letter and follows every date.
StrLT(a, b) ==
  IF a.fmt = "bad" THEN FALSE
  ELSE IF b.fmt = "bad" THEN TRUE
  ELSE a.ms < b.ms \/ (a.ms = b.ms /\ FmtRank(a.fmt) < FmtRank(b.fmt))

StrLE(a, b) == a = b \/ StrLT(a, b)

\* ------------------------------------------------------------------------
\* Vesting model
\* ------------------------------------------------------------------------

\* UnlockPeriods that counts a started period as complete.
UnlockPeriods_Ceil(sinceCliffMs, unlockPeriodHours) ==
  IF unlockPeriodHours = 0
  THEN IF sinceCliffMs = 0 THEN NaN ELSE Infinity
  ELSE (sinceCliffMs + unlockPeriodHours * MsPerHour - 1)
         \div (unlockPeriodHours * MsPerHour)

\* Math.floor(hoursSinceCliff / unlockPeriodHours), with the instants in
\* milliseconds; a division by zero gives NaN (0/0) or Infinity (x/0).
UnlockPeriods(sinceCliffMs, unlockPeriodHours) ==
  IF unlockPeriodHours = 0
  THEN IF sinceCliffMs = 0 THEN NaN ELSE Infinity
  ELSE sinceCliffMs \div (unlockPeriodHours * MsPerHour)

\* unlockPeriods * unlockRateTuna, for a rate >= 0
TotalUnlocked(unlockPeriods, unlockRateTuna) ==
  IF unlockPeriods = NaN THEN NaN
  ELSE IF unlockPeriods = Infinity
       THEN IF unlockRateTuna = 0 THEN NaN ELSE Infinity
  ELSE unlockPeriods * unlockRateTuna

calculateLockedAmount(schedule, currentTime) ==
  LET elapsedMs == JsSub(currentTime, schedule.startTime)
  IN IF elapsedMs = NaN THEN NaN
     ELSE IF elapsedMs < schedule.cliffHours * MsPerHour THEN schedule.lockedTuna
     ELSE LET sinceCliffMs == elapsedMs - schedule.cliffHours * MsPerHour
              unlockPeriods == UnlockPeriods(sinceCliffMs, schedule.unlockPeriodHours)
              totalUnlocked == TotalUnlocked(unlockPeriods, schedule.unlockRateTuna)
          IN IF totalUnlocked = NaN THEN NaN
             ELSE IF totalUnlocked = Infinity THEN 0
             ELSE MathMax(0, schedule.lockedTuna - totalUnlocked)

\* ------------------------------------------------------------------------
\* Events of the archive
\* ------------------------------------------------------------------------

\* Largest number of events of the archive that one lookup reads.
MaxEvents == 3

\* An event of the archive is a record
\*   [signature, timestamp, type_id, mine, len, d_stake, d_pending,
\*    reward_sol, cliffHours, unlockPeriodHours, unlockRateTuna]
\* len is the number of fields of the tuple; a field at an index >= len is
\* undefined.  mine says that field 4 (address) is the wallet looked up.
Body(type_id, len, mine, d_stake, d_pending, reward_sol, cliff, period, rate) ==
  [type_id |-> type_id, len |-> len, mine |-> mine, d_stake |-> d_stake,
   d_pending |-> d_pending, reward_sol |-> reward_sol, cliffHours |-> cliff,
   unlockPeriodHours |-> period, unlockRateTuna |-> rate]

\* Balance events of the wallet: 11 fields, no vesting extension.
BalanceBodies ==
  { Body(0, 11, TRUE, 6, 0, 0, 0, 0, 0),
    Body(1, 11, TRUE, 3, 0, 0, 0, 0, 0),
    Body(2, 11, TRUE, -3, 3, 0, 0, 0, 0),
    Body(3, 11, TRUE, -1, -3, 0, 0, 0, 0),
    Body(4, 11, TRUE, 1, 0, 1, 0, 0, 0),
    Body(5, 11, TRUE, 0, 1, 3, 0, 0, 0),
    Body(7, 11, TRUE, 2, -1, 5, 0, 0, 0) }

\* set_vesting events; d_stake carries the locked amount, fields 12 to 14
\* the cliff, the period and the rate.  The last one has 11 fields only.
VestingBodies ==
  { Body(6, 15, TRUE, 4, 1, 0, 0, 24, 2),
    Body(6, 15, TRUE, -5, 0, 0, 24, 12, 3),
    Body(6, 15, TRUE, 4, 0, 0, 24, 24, 4),
    Body(6, 15, TRUE, 4, 0, 0, 0, 0, 2),
    Body(6, 15, TRUE, 5, 0, 0, 0, 12, 0),
    Body(6, 15, TRUE, 0, 1, 0, 0, 24, 2),
    Body(6, 11, TRUE, 4, 0, 0, 0, 24, 2) }

\* Events that the filter or the replay drops: another wallet's event, and
\* a tuple of the wallet with fewer than 11 fields.
DroppedBodies ==
  { Body(1, 11, FALSE, 3, 0, 0, 0, 0, 0),
    Body(1, 10, TRUE, 3, 1, 0, 0, 0, 0) }

EventBodies == BalanceBodies \cup VestingBodies \cup DroppedBodies

\* What the archive holds next: an event and the hours between it and the
\* event before it.  The events of the archive are in chronological order;
\* some share the timestamp of the event before them.
ArchiveSteps ==
  (EventBodies \X {24})
    \cup ({b \in EventBodies : b.len > 10 /\ b.mine /\ b.type_id \in {1, 6}
                               /\ (b.type_id = 6 => b.cliffHours = 0
                                                    /\ b.d_stake > 0
                                                    /\ b.unlockPeriodHours > 0
                                                    /\ b.unlockRateTuna > 0
                                                    /\ b.len > 14)}
          \X {0})

\* event[idx] || 0
Field(e, idx, v) == IF e.len > idx THEN v ELSE 0

\* e.length > 4 && e[4] === walletAddress  (line 292)
IsWalletEvent(e) == e.len > 4 /\ e.mine

\* IsMalformed that accepts a tuple of 10 fields.
IsMalformed_TenFields(e) == e.len < 10

\* event.length < 11  (line 146)
IsMalformed(e) == e.len < 11

\* ------------------------------------------------------------------------
\* Balance accumulator: one iteration of the loop of buildBalanceTimeline
\* ------------------------------------------------------------------------

\* EVENT_TYPES[op_type] || ['unknown', 'Unknown']
EventType(op_type) ==
  CASE op_type = 0 -> <<"initialize", "Initialize Position">>
    [] op_type = 1 -> <<"stake", "Stake">>
    [] op_type = 2 -> <<"unstake", "Unstake">>
    [] op_type = 3 -> <<"withdraw", "Withdraw">>
    [] op_type = 4 -> <<"compound", "Compound">>
    [] op_type = 5 -> <<"claim", "Claim Rewards">>
    [] op_type = 6 -> <<"set_vesting", "Set Vesting Strategy">>
    [] OTHER -> <<"unknown", "Unknown">>

DStake(e) == Field(e, 5, e.d_stake)
DPending(e) == Field(e, 6, e.d_pending)
RewardSol(e) == Field(e, 10, e.reward_sol)

\* OpAmount that shows |d_stake| for an unknown type.
OpAmount_UnknownShowsStake(e) ==
  CASE e.type_id = 3 -> MathAbs(Field(e, 6, e.d_pending))
    [] e.type_id \in {4, 5} -> Field(e, 10, e.reward_sol)
    [] OTHER -> MathAbs(Field(e, 5, e.d_stake))

\* The amount shown for the operation (lines 164-192, 222-226).
OpAmount(e) ==
  CASE e.type_id \in {0, 1, 2} -> MathAbs(DStake(e))
    [] e.type_id = 3 -> MathAbs(DPending(e))
    [] e.type_id \in {4, 5} -> RewardSol(e)
    [] e.type_id = 6 -> MathAbs(DStake(e))
    [] OTHER -> 0

\* StakedAfter with a withdraw branch that forgets d_stake.
StakedAfter_WithdrawKeeps(staked, e) ==
  IF e.type_id \in {3, 6} THEN staked ELSE JsAdd(staked, Field(e, 5, e.d_stake))

\* staked after the event: every branch but set_vesting adds d_stake.
StakedAfter(staked, e) ==
  IF e.type_id = 6 THEN staked ELSE JsAdd(staked, DStake(e))

\* unstaked after the event: every branch but set_vesting adds d_pending.
UnstakedAfter(unstaked, e) ==
  IF e.type_id = 6 THEN unstaked ELSE JsAdd(unstaked, DPending(e))

\* realized_rewards after the event: compound and claim add reward_sol.
RewardsAfter(realized_rewards, e) ==
  IF e.type_id \in {4, 5} THEN JsAdd(realized_rewards, RewardSol(e))
  ELSE realized_rewards

\* The schedule a set_vesting event declares (lines 197-210).
NewSchedule(e) ==
  [startTime |-> DateParse(e.timestamp),
   lockedTuna |-> OpAmount(e),
   cliffHours |-> Field(e, 12, e.cliffHours),
   unlockPeriodHours |-> Field(e, 13, e.unlockPeriodHours),
   unlockRateTuna |-> Field(e, 14, e.unlockRateTuna)]

\* DeclaresSchedule that does not look at the unlock period.
DeclaresSchedule_NoPeriodGuard(e) ==
  /\ e.type_id = 6
  /\ JsPositive(OpAmount(e))
  /\ JsPositive(NewSchedule(e).unlockRateTuna)

\* amount > 0 && unlockPeriodHours > 0 && unlockRateTuna > 0  (line 203)
DeclaresSchedule(e) ==
  /\ e.type_id = 6
  /\ JsPositive(OpAmount(e))
  /\ JsPositive(NewSchedule(e).unlockPeriodHours)
  /\ JsPositive(NewSchedule(e).unlockRateTuna)

\* ExistingIndex that never finds a schedule.
ExistingIndex_None(schedules, amount) == 0

\* vestingSchedules.findIndex(s => s.lockedTuna === amount); 0 when none.
ExistingIndex(schedules, amount) ==
  IF \E i \in 1..Len(schedules) : schedules[i].lockedTuna = amount
  THEN CHOOSE i \in 1..Len(schedules) :
         /\ schedules[i].lockedTuna = amount
         /\ \A j \in 1..(i - 1) : schedules[j].lockedTuna # amount
  ELSE 0

\* The schedule set after the event (lines 203-221).
SchedulesAfter(schedules, e) ==
  IF ~DeclaresSchedule(e) THEN schedules
  ELSE LET existingIndex == ExistingIndex(schedules, OpAmount(e))
       IN IF existingIndex > 0
          THEN [schedules EXCEPT ![existingIndex] = NewSchedule(e)]
          ELSE Append(schedules, NewSchedule(e))

\* Sum of calculateLockedAmount over the schedules, at the instant time.
RECURSIVE SumLocked(_, _, _)
SumLocked(schedules, time, n) ==
  IF n = 0 THEN 0
  ELSE JsAdd(SumLocked(schedules, time, n - 1),
             calculateLockedAmount(schedules[n], time))

\* RawLocked that counts the first schedule only.
RawLocked_FirstOnly(schedules, time) == SumLocked(schedules, time, IF Len(schedules) > 0 THEN 1 ELSE 0)

RawLocked(schedules, time) == SumLocked(schedules, time, Len(schedules))

\* CapLocked without the cap.
CapLocked_NoCap(rawLocked, staked) == rawLocked

\* Math.min(rawLocked, staked)  (line 237)
CapLocked(rawLocked, staked) == MathMin(rawLocked, staked)

\* A timeline point.  kind and src are bookkeeping of the model: kind is
\* "event", "unlock" or "end"; src is the signature of the event that made
\* an "event" point and 0 otherwise.
Point(date, staked, unstaked, locked, realized_rewards, kind, src) ==
  [date |-> date, staked |-> staked, unstaked |-> unstaked, locked |-> locked,
   realized_rewards |-> realized_rewards, kind |-> kind, src |-> src]

\* The point pushed for the event (lines 230-245).
EventPoint(e, staked, unstaked, realized_rewards, schedules) ==
  Point(e.timestamp,
        Round6(staked),
        Round6(unstaked),
        Round6(CapLocked(RawLocked(schedules, DateParse(e.timestamp)), staked)),
        Round6(realized_rewards),
        "event", e.signature)

\* EventOperation that stores no signature.
EventOperation_NoSignature(e) ==
  [date |-> e.timestamp,
   type |-> EventType(e.type_id)[1],
   type_label |-> EventType(e.type_id)[2],
   amount |-> Round6(OpAmount(e)),
   signature |-> 0]

\* The operation pushed for the event (lines 247-254).
EventOperation(e) ==
  [date |-> e.timestamp,
   type |-> EventType(e.type_id)[1],
   type_label |-> EventType(e.type_id)[2],
   amount |-> Round6(OpAmount(e)),
   signature |-> e.signature]

\* ------------------------------------------------------------------------
\* Timeline extender
\* ------------------------------------------------------------------------

MsPerSecond == 1000

\* `${cacheEndDate}T23:59:59Z`, for the day numbered d (day 0 starts at
\* instant 0).
CacheEndStamp(d) == Stamp((d + 1) * MsPerDay - MsPerSecond, "Z")

\* TotalPeriods that rounds down.
TotalPeriods_Floor(schedule) ==
  schedule.lockedTuna \div schedule.unlockRateTuna

\* Math.ceil(lockedTuna / unlockRateTuna), both positive
TotalPeriods(schedule) ==
  (schedule.lockedTuna + schedule.unlockRateTuna - 1) \div schedule.unlockRateTuna

\* new Date(startMs + cliffMs + i * periodMs).getTime()  (lines 322-333)
UnlockTime(schedule, i) ==
  IF schedule.startTime = NaN THEN NaN
  ELSE schedule.startTime + schedule.cliffHours * MsPerHour
         + i * schedule.unlockPeriodHours * MsPerHour

\* The unlock times i..totalPeriods of one schedule that are <= cacheEndTime.
RECURSIVE ScheduleUnlocks(_, _, _)
ScheduleUnlocks(schedule, cacheEndTime, i) ==
  IF i > TotalPeriods(schedule) THEN <<>>
  ELSE (IF JsLE(UnlockTime(schedule, i), cacheEndTime)
        THEN <<UnlockTime(schedule, i)>> ELSE <<>>)
       \o ScheduleUnlocks(schedule, cacheEndTime, i + 1)

\* unlockTimes (lines 320-338): schedule after schedule.
RECURSIVE CollectUnlockTimes(_, _, _)
CollectUnlockTimes(schedules, cacheEndTime, n) ==
  IF n > Len(schedules) THEN <<>>
  ELSE ScheduleUnlocks(schedules[n], cacheEndTime, 0)
       \o CollectUnlockTimes(schedules, cacheEndTime, n + 1)

\* The loop of lines 351-356: the search starts from timeline[0] and keeps
\* a point that is <= the unlock date and later than the one kept so far.
RECURSIVE PrevPointFrom(_, _, _, _)
PrevPointFrom(timeline, unlockDateStr, prevPoint, i) ==
  IF i > Len(timeline) THEN prevPoint
  ELSE PrevPointFrom(timeline, unlockDateStr,
         IF /\ StrLE(timeline[i].date, unlockDateStr)
            /\ StrLT(prevPoint.date, timeline[i].date)
         THEN timeline[i] ELSE prevPoint,
         i + 1)

PrevPoint(timeline, unlockDateStr) ==
  PrevPointFrom(timeline, unlockDateStr, timeline[1], 1)

\* The point pushed for one unlock time (lines 358-372).
UnlockPoint(timeline, schedules, unlockTime) ==
  LET prevPoint == PrevPoint(timeline, ToISOString(unlockTime))
      cappedLocked == CapLocked(RawLocked(schedules, unlockTime), prevPoint.staked)
  IN Point(ToISOString(unlockTime), prevPoint.staked, prevPoint.unstaked,
           Round6(cappedLocked), prevPoint.realized_rewards, "unlock", 0)

\* The loop of lines 343-373.  existingDates is computed once, before the
\* loop, from the event-derived timeline.
RECURSIVE AddUnlockPoints(_, _, _, _, _)
AddUnlockPoints(timeline, existingDates, schedules, unlockTimes, k) ==
  IF k > Len(unlockTimes) THEN timeline
  ELSE AddUnlockPoints(
         IF ToISOString(unlockTimes[k]) \in existingDates THEN timeline
         ELSE Append(timeline, UnlockPoint(timeline, schedules, unlockTimes[k])),
         existingDates, schedules, unlockTimes, k + 1)

\* timeline.reduce((latest, p) => p.date > latest.date ? p : latest)
RECURSIVE LatestFrom(_, _, _)
LatestFrom(timeline, latest, i) ==
  IF i > Len(timeline) THEN latest
  ELSE LatestFrom(timeline,
         IF StrLT(latest.date, timeline[i].date) THEN timeline[i] ELSE latest,
         i + 1)

LatestPoint(timeline) == LatestFrom(timeline, timeline[1], 2)

\* The coverage-end point of the vesting branch (lines 376-393), appended
\* when the coverage-end timestamp is greater than the latest date.
AddEndPointVesting(timeline, schedules, cacheEndTimestamp) ==
  LET lastPoint == LatestPoint(timeline)
      lockedAtEnd == CapLocked(RawLocked(schedules, DateParse(cacheEndTimestamp)),
                               lastPoint.staked)
  IN IF StrLT(lastPoint.date, cacheEndTimestamp)
     THEN Append(timeline,
            Point(cacheEndTimestamp, lastPoint.staked, lastPoint.unstaked,
                  Round6(lockedAtEnd), lastPoint.realized_rewards, "end", 0))
     ELSE timeline

\* a.date.localeCompare(b.date) < 0.  The collation puts '.' before '+'
\* before letters, and a string that is no date after every date.
LocaleRank(fmt) == CASE fmt = "ms" -> 0 [] fmt = "offset" -> 1 [] fmt = "Z" -> 2

LocaleLT(a, b) ==
  IF a.fmt = "bad" THEN FALSE
  ELSE IF b.fmt = "bad" THEN TRUE
  ELSE a.ms < b.ms \/ (a.ms = b.ms /\ LocaleRank(a.fmt) < LocaleRank(b.fmt))

\* Insert p after the last element that does not sort after it.
RECURSIVE InsertSorted(_, _)
InsertSorted(sorted, p) ==
  IF sorted = <<>> THEN <<p>>
  ELSE IF LocaleLT(p.date, sorted[Len(sorted)].date)
       THEN Append(InsertSorted(SubSeq(sorted, 1, Len(sorted) - 1), p),
                   sorted[Len(sorted)])
       ELSE Append(sorted, p)

\* timeline.sort((a, b) => a.date.localeCompare(b.date)) : a stable sort.
RECURSIVE SortFrom(_, _, _)
SortFrom(timeline, sorted, i) ==
  IF i > Len(timeline) THEN sorted
  ELSE SortFrom(timeline, InsertSorted(sorted, timeline[i]), i + 1)

\* SortTimeline that leaves the points in the order of their insertion.
SortTimeline_Unsorted(timeline) == timeline

SortTimeline(timeline) == SortFrom(timeline, <<>>, 1)

\* AddEndPointPlain that carries the first point forward.
AddEndPointPlain_FirstPoint(timeline, cacheEndTimestamp) ==
  IF StrLT(timeline[Len(timeline)].date, cacheEndTimestamp)
  THEN Append(timeline,
         Point(cacheEndTimestamp, timeline[1].staked, timeline[1].unstaked,
               timeline[1].locked, timeline[1].realized_rewards, "end", 0))
  ELSE timeline

\* The coverage-end point of the branch without schedules (lines 398-413).
AddEndPointPlain(timeline, cacheEndTimestamp) ==
  LET lastPoint == timeline[Len(timeline)]
  IN IF StrLT(lastPoint.date, cacheEndTimestamp)
     THEN Append(timeline,
            Point(cacheEndTimestamp, lastPoint.staked, lastPoint.unstaked,
                  lastPoint.locked, lastPoint.realized_rewards, "end", 0))
     ELSE timeline

\* Lines 313-413.  metaEnd is <<>> when meta.end is missing and <<d>> when
\* it names day d.
ExtendTimeline(timeline, schedules, metaEnd) ==
  IF metaEnd = <<>> \/ Len(timeline) = 0 THEN timeline
  ELSE LET cacheEndTimestamp == CacheEndStamp(metaEnd[1])
           cacheEndTime == DateParse(cacheEndTimestamp)
       IN IF Len(schedules) > 0
          THEN LET unlockTimes == CollectUnlockTimes(schedules, cacheEndTime, 1)
                   existingDates == {timeline[i].date : i \in 1..Len(timeline)}
                   withUnlocks == AddUnlockPoints(timeline, existingDates,
                                                  schedules, unlockTimes, 1)
               IN SortTimeline(
                    AddEndPointVesting(withUnlocks, schedules, cacheEndTimestamp))
          ELSE AddEndPointPlain(timeline, cacheEndTimestamp)

\* ------------------------------------------------------------------------
\* Summary derivation
\* ------------------------------------------------------------------------

\* Lines 421-428.  new Date(string) never throws: an unparseable string
\* gives an invalid Date whose getTime() is NaN, so the catch block and the
\* default timeline.length are never used.
DaysActive(timeline, firstDate, lastActivityDate) ==
  LET firstDt == DateParse(firstDate)
      lastActivityDt == DateParse(lastActivityDate)
      diff == JsSub(lastActivityDt, firstDt)
  IN IF diff = NaN THEN NaN ELSE (diff \div MsPerDay) + 1

\* addrData.current is [present, vals]: present is FALSE when the address
\* record has no current field, vals are the elements of the array.
\* addrData.current || [0, 0, 0, 0, 0]  (line 430)
CurrentOrDefault(current) ==
  IF current.present THEN current.vals ELSE <<0, 0, 0, 0, 0>>

\* current[0] !== undefined ? current[0] : timeline[timeline.length - 1].staked
CurrentStaked(current, timeline) ==
  IF Len(CurrentOrDefault(current)) >= 1 THEN CurrentOrDefault(current)[1]
  ELSE timeline[Len(timeline)].staked

\* current[1] !== undefined ? current[1] : timeline[timeline.length - 1].unstaked
CurrentUnstaked(current, timeline) ==
  IF Len(CurrentOrDefault(current)) >= 2 THEN CurrentOrDefault(current)[2]
  ELSE timeline[Len(timeline)].unstaked

\* Lines 415-444, over the finished timeline.
Summary(timeline, operations, current) ==
  LET firstDate == timeline[1].date
      lastActivityDate == IF Len(operations) > 0
                          THEN operations[Len(operations)].date
                          ELSE timeline[1].date
  IN [total_operations |-> Len(operations),
      current_staked |-> Round6(CurrentStaked(current, timeline)),
      current_unstaked |-> Round6(CurrentUnstaked(current, timeline)),
      current_locked |-> Round6(timeline[Len(timeline)].locked),
      realized_rewards |-> timeline[Len(timeline)].realized_rewards,
      first_stake_date |-> firstDate,
      last_activity_date |-> lastActivityDate,
      days_active |-> DaysActive(timeline, firstDate, lastActivityDate)]

\* ------------------------------------------------------------------------
\* parseWalletTimeline
\* ------------------------------------------------------------------------

ErrNotInCache == "Wallet not found in cache. Total wallets: N"
ErrNoEventData == "Wallet has no event data"
ErrNoEvents == "No events found for wallet"
ErrNoTimeline == "Failed to build timeline"

NotFound(error) == [found |-> FALSE, error |-> error]

Found(timeline, operations, summary) ==
  [found |-> TRUE,
   date_range |-> <<timeline[1].date, timeline[Len(timeline)].date>>,
   timeline |-> timeline,
   operations |-> operations,
   summary |-> summary]

NoResult == [pending |-> TRUE]

\* The address records a lookup can meet: absent from addresses, present
\* without first_event / last_event, present with both.
AddressKinds == {"absent", "noidx", "present"}

\* meta.end: missing, or the number of the last day covered.
MetaEnds == {<<>>, <<1>>, <<4>>}

\* addrData.current: missing, an empty array, the five totals.
Currents ==
  { [present |-> FALSE, vals |-> <<>>],
    [present |-> TRUE, vals |-> <<>>],
    [present |-> TRUE, vals |-> <<4 * Resolution, Resolution, 0, 0, 0>>] }

\* The meta.end and addrData.current that a lookup reads after the replay:
\* the snapshot with each meta.end that is there, the missing snapshot with
\* the later one, the empty array with the missing meta.end.
FinishInputs ==
  { input \in MetaEnds \X Currents :
      IF ~input[2].present THEN input[1] = <<4>>
      ELSE IF input[2].vals = <<>> THEN input[1] = <<>>
      ELSE input[1] # <<>> }

\* No call of calculateLockedAmount has been made.
NoCall == [made |-> FALSE]

\* ------------------------------------------------------------------------
\* parseWalletTimeline as a function of the wallet and the decoded archive
\* ------------------------------------------------------------------------

\* The state of buildBalanceTimeline before the first event (lines 135-143).
NewAccumulator ==
  [staked |-> 0, unstaked |-> 0, realized_rewards |-> 0,
   vestingSchedules |-> <<>>, timeline |-> <<>>, operations |-> <<>>]

\* One iteration of the loop of lines 145-255.
ReplayInto(acc, e) ==
  IF IsMalformed(e) THEN acc
  ELSE LET stakedAfter == StakedAfter(acc.staked, e)
           unstakedAfter == UnstakedAfter(acc.unstaked, e)
           rewardsAfter == RewardsAfter(acc.realized_rewards, e)
           schedulesAfter == SchedulesAfter(acc.vestingSchedules, e)
       IN [staked |-> stakedAfter,
           unstaked |-> unstakedAfter,
           realized_rewards |-> rewardsAfter,
           vestingSchedules |-> schedulesAfter,
           timeline |-> Append(acc.timeline,
                          EventPoint(e, stakedAfter, unstakedAfter, rewardsAfter,
                                     schedulesAfter)),
           operations |-> Append(acc.operations, EventOperation(e))]

RECURSIVE BuildFrom(_, _, _)
BuildFrom(walletEvents, i, acc) ==
  IF i > Len(walletEvents) THEN acc
  ELSE BuildFrom(walletEvents, i + 1, ReplayInto(acc, walletEvents[i]))

buildBalanceTimeline(walletEvents) == BuildFrom(walletEvents, 1, NewAccumulator)

\* The event as the lookup of walletAddress sees it: mine says that its
\* address field is walletAddress.
SeenBy(e, walletAddress) == [e EXCEPT !.mine = (e.address = walletAddress)]

\* Lines 263-454.  cache.addresses maps a wallet to [indexed, current];
\* indexed says that first_event and last_event are there.
parseWalletTimeline(walletAddress, cache) ==
  IF walletAddress \notin DOMAIN cache.addresses
  THEN [wallet |-> walletAddress] @@ NotFound(ErrNotInCache)
  ELSE IF ~cache.addresses[walletAddress].indexed
  THEN [wallet |-> walletAddress] @@ NotFound(ErrNoEventData)
  ELSE LET seen == [i \in 1..Len(cache.events) |->
                      SeenBy(cache.events[i], walletAddress)]
           walletEvents == SelectSeq(seen, IsWalletEvent)
           built == buildBalanceTimeline(walletEvents)
       IN IF Len(walletEvents) = 0
          THEN [wallet |-> walletAddress] @@ NotFound(ErrNoEvents)
          ELSE IF Len(built.timeline) = 0
          THEN [wallet |-> walletAddress] @@ NotFound(ErrNoTimeline)
          ELSE LET finished == ExtendTimeline(built.timeline,
                                              built.vestingSchedules,
                                              cache.metaEnd)
               IN [wallet |-> walletAddress]
                    @@ Found(finished, built.operations,
                             Summary(finished, built.operations,
                                     cache.addresses[walletAddress].current))

\* ------------------------------------------------------------------------
\* useWalletTimeline: the values it handles
\* ------------------------------------------------------------------------

\* A wallet address as the component passes it: core is the text without
\* the whitespace around it, pad says that whitespace surrounds it, isNull
\* that the prop is null.
Address(core, pad) == [core |-> core, pad |-> pad, isNull |-> FALSE]

NullAddress == [core |-> "", pad |-> FALSE, isNull |-> TRUE]

\* null, ' ', 'A', ' A ', 'B'
AddressInputs ==
  { NullAddress, Address("", TRUE),
    Address("A", FALSE), Address("A", TRUE), Address("B", FALSE) }

\* walletAddress.trim()
Trim(a) == a.core

\* !walletAddress || walletAddress.trim().length === 0  (line 535)
IsEmptyAddress(a) == a.isNull \/ Trim(a) = ""

\* The delay of the debounce timer, in milliseconds (line 546).
DebounceMs == 500

\* Time passes by half a delay or a whole one.
Ticks == {DebounceMs \div 2, DebounceMs}

\* Largest number of calls of loadTimeline in one session.
MaxLookups == 2

MAX_COMPRESSED_SIZE == 10 * 1024 * 1024
MAX_DECOMPRESSED_SIZE == 50 * 1024 * 1024

\* The body of a response: the byte length of the gzip file, whether it
\* inflates, the byte length of the inflated UTF-8 text, the length of the
\* string pako decodes it to (UTF-16 code units: fewer than the bytes when
\* the text holds characters outside ASCII) and whether the text is JSON.
Payload(compressedBytes, gzipOk, decompressedBytes, decompressedLength, jsonOk) ==
  [compressedBytes |-> compressedBytes, gzipOk |-> gzipOk,
   decompressedBytes |-> decompressedBytes,
   decompressedLength |-> decompressedLength, jsonOk |-> jsonOk]

NoPayload == Payload(0, FALSE, 0, 0, FALSE)

\* The bodies a response can have: an archive exactly at both limits, one
\* byte over the compressed limit, a file that does not inflate, a text one
\* character over the decompressed limit, a text at the limit in characters
\* and over it in bytes, a text that is no JSON.
Payloads ==
  { Payload(MAX_COMPRESSED_SIZE, TRUE, MAX_DECOMPRESSED_SIZE, MAX_DECOMPRESSED_SIZE, TRUE),
    Payload(MAX_COMPRESSED_SIZE + 1, TRUE, 65536, 65536, TRUE),
    Payload(4096, FALSE, 0, 0, FALSE),
    Payload(4096, TRUE, MAX_DECOMPRESSED_SIZE + 1, MAX_DECOMPRESSED_SIZE + 1, TRUE),
    Payload(4096, TRUE, MAX_DECOMPRESSED_SIZE + 2, MAX_DECOMPRESSED_SIZE, TRUE),
    Payload(4096, TRUE, 65536, 65536, FALSE) }

\* What fetch settles with: a rejection, a response that is not ok, an ok
\* response.
Responses == {"reject", "notok", "ok"}

\* What response.arrayBuffer() settles with: a rejection (NoPayload) or the
\* body.
Bodies == {NoPayload} \cup Payloads

\* An event of the decoded archive of the session.
ArchiveEvent(body, address, signature, hour) ==
  body @@ [address |-> address, signature |-> signature,
           timestamp |-> Stamp(hour * MsPerHour, "offset")]

\* The decoded archive of the session: wallet A has three events, wallet B
\* is unknown to it, a third wallet has one event.
SessionCache ==
  [addresses |->
     [w \in {"A", "C"} |->
        [indexed |-> TRUE,
         current |-> [present |-> TRUE,
                      vals |-> <<4 * Resolution, Resolution, 0, 0, 0>>]]],
   events |->
     << ArchiveEvent(Body(0, 11, TRUE, 6, 0, 0, 0, 0, 0), "A", 1, 24),
        ArchiveEvent(Body(1, 11, TRUE, 3, 0, 0, 0, 0, 0), "C", 2, 30),
        ArchiveEvent(Body(6, 15, TRUE, 4, 0, 0, 24, 24, 4), "A", 3, 48),
        ArchiveEvent(Body(2, 11, TRUE, -3, 3, 0, 0, 0, 0), "A", 4, 60) >>,
   metaEnd |-> <<4>>]

ErrFetchRejected == "Failed to fetch"
ErrNotOk == "Failed to load staker cache: STATUS"
ErrCompressedTooLarge == "Compressed file too large: N MB (max 10MB)"
ErrDecompressedTooLarge == "Decompressed data too large: N MB (max 50MB)"
ErrLoadFailed == "Failed to load timeline"
ErrJson == "Unexpected token in JSON"

\* Lines 489-506, run when the body has arrived: the calls made, in order,
\* the message of the error thrown (<<>> when none is) and the result.
Decode(address, payload) ==
  IF payload.compressedBytes > MAX_COMPRESSED_SIZE
  THEN [calls |-> <<>>, thrown |-> <<ErrCompressedTooLarge>>]
  ELSE IF ~payload.gzipOk
  THEN [calls |-> <<"ungzip">>, thrown |-> <<ErrLoadFailed>>]
  ELSE IF payload.decompressedLength > MAX_DECOMPRESSED_SIZE
  THEN [calls |-> <<"ungzip">>, thrown |-> <<ErrDecompressedTooLarge>>]
  ELSE IF ~payload.jsonOk
  THEN [calls |-> <<"ungzip", "JSON.parse">>, thrown |-> <<ErrJson>>]
  ELSE [calls |-> <<"ungzip", "JSON.parse", "parseWalletTimeline">>,
        thrown |-> <<>>,
        result |-> parseWalletTimeline(address, SessionCache)]

\* data === null
NoData == [isNull |-> TRUE]

\* A call of loadTimeline: the address it was given, where it stands
\* ("fetch": awaiting fetch, "body": awaiting arrayBuffer, "done"), the body
\* it received and the calls it has made.
Lookup(address, stage, payload, calls) ==
  [address |-> address, stage |-> stage, payload |-> payload, calls |-> calls]

\* ClearTimeout that cancels nothing.
ClearTimeout_Keeps(pending, id) == pending

\* clearTimeout(id): the timer of that id, if pending, is dropped.
ClearTimeout(pending, id) == {t \in pending : t.id # id}

\* The id setTimeout returns: one that no pending timer and no reference has.
FreshTimerId(pending, ref) ==
  CHOOSE n \in 1..(Cardinality(pending) + 2) :
    /\ n # ref
    /\ \A t \in pending : t.id # n
    /\ \A m \in 1..(n - 1) : m = ref \/ \E t \in pending : t.id = m

\* MayApply that ignores the mounted flag.
MayApply_Always(isMounted) == TRUE

\* isMountedRef.current, as read before a state update (lines 508, 516, 521)
MayApply(isMounted) == isMounted

VARIABLES
  pc,                \* "lookup", "replay" or "done": where the lookup stands
  tsFormat,          \* the way the archive writes its timestamps
  clock,             \* instant of the last event read from the archive
  events,            \* cache.events, as far as the lookup has read it
  addrKind,          \* the address record met (line 269-287); "unread" before
  staked,            \* running totals of buildBalanceTimeline
  unstaked,
  realized_rewards,
  vestingSchedules,  \* the schedule set of buildBalanceTimeline
  timeline,          \* the event-derived timeline of buildBalanceTimeline
  operations,
  metaEnd,           \* meta.end as read at line 314
  current,           \* addrData.current as read at line 430
  result,            \* what parseWalletTimeline returned
  calc,              \* a call of calculateLockedAmount: schedule, instant, value
  isMounted,         \* isMountedRef.current
  walletAddress,     \* the prop of the last render of the component
  data,              \* state of the hook
  loading,
  error,             \* <<>> for null, <<message>> otherwise
  debounceTimeoutRef, \* debounceTimeoutRef.current: a timer id, 0 for null
  timers,            \* the pending timers: [id, address, elapsed]
  lookups,           \* the calls of loadTimeline of the session, in order
  sinceChange        \* milliseconds that timers have run since walletAddress
                     \* last changed, up to the debounce delay

parseVars == <<pc, tsFormat, clock, events, addrKind, staked, unstaked,
               realized_rewards, vestingSchedules, timeline, operations,
               metaEnd, current, result, calc>>

hookVars == <<isMounted, walletAddress, data, loading, error,
              debounceTimeoutRef, timers, lookups, sinceChange>>

vars == <<parseVars, hookVars>>

\* The hook after the first render with walletAddress = null: the effects
\* have run, no timer is pending.
HookMounted ==
  /\ isMounted = TRUE
  /\ walletAddress = NullAddress
  /\ data = NoData
  /\ loading = FALSE
  /\ error = <<>>
  /\ debounceTimeoutRef = 0
  /\ timers = {}
  /\ lookups = <<>>
  /\ sinceChange = 0

accVars == <<staked, unstaked, realized_rewards, vestingSchedules, timeline,
             operations>>

Init ==
  /\ pc = "lookup"
  /\ tsFormat \in Formats
  /\ clock = 0
  /\ events = <<>>
  /\ addrKind = "unread"
  /\ staked = 0
  /\ unstaked = 0
  /\ realized_rewards = 0
  /\ vestingSchedules = <<>>
  /\ timeline = <<>>
  /\ operations = <<>>
  /\ metaEnd = <<>>
  /\ current = [present |-> FALSE, vals |-> <<>>]
  /\ result = NoResult
  /\ calc = NoCall
  /\ HookMounted

\* Lines 264-287: the wallet's address record is looked up.
LookupWallet(kind) ==
  /\ pc = "lookup"
  /\ addrKind' = kind
  /\ IF kind = "absent"
     THEN pc' = "done" /\ result' = NotFound(ErrNotInCache)
     ELSE IF kind = "noidx"
     THEN pc' = "done" /\ result' = NotFound(ErrNoEventData)
     ELSE pc' = "replay" /\ result' = result
  /\ UNCHANGED <<tsFormat, clock, events, accVars, metaEnd, current, calc>>
  /\ UNCHANGED hookVars

\* The effect of one event of the archive on the lookup: the filter of
\* line 292 and one iteration of the loop of lines 145-255.
Replay(e) ==
  IF ~IsWalletEvent(e) \/ IsMalformed(e)
  THEN UNCHANGED accVars
  ELSE /\ staked' = StakedAfter(staked, e)
       /\ unstaked' = UnstakedAfter(unstaked, e)
       /\ realized_rewards' = RewardsAfter(realized_rewards, e)
       /\ vestingSchedules' = SchedulesAfter(vestingSchedules, e)
       /\ timeline' = Append(timeline,
            EventPoint(e, StakedAfter(staked, e), UnstakedAfter(unstaked, e),
                       RewardsAfter(realized_rewards, e),
                       SchedulesAfter(vestingSchedules, e)))
       /\ operations' = Append(operations, EventOperation(e))

\* The next event of the archive is read and replayed.
ReplayEvent(body, advance) ==
  /\ pc = "replay"
  /\ Len(events) < MaxEvents
  /\ LET e == body @@
              [signature |-> Len(events) + 1,
               timestamp |-> Stamp(clock + advance * MsPerHour, tsFormat)]
     IN /\ events' = Append(events, e)
        /\ clock' = clock + advance * MsPerHour
        /\ Replay(e)
  /\ UNCHANGED <<pc, tsFormat, addrKind, metaEnd, current, result, calc>>
  /\ UNCHANGED hookVars

\* The end of the archive: lines 294-311 and 313-453.
FinishLookup(end, cur) ==
  /\ pc = "replay"
  /\ pc' = "done"
  /\ metaEnd' = end
  /\ current' = cur
  /\ result' =
       IF \A i \in 1..Len(events) : ~IsWalletEvent(events[i])
       THEN NotFound(ErrNoEvents)
       ELSE IF Len(timeline) = 0
       THEN NotFound(ErrNoTimeline)
       ELSE LET finished == ExtendTimeline(timeline, vestingSchedules, end)
            IN Found(finished, operations, Summary(finished, operations, cur))
  /\ UNCHANGED <<tsFormat, clock, events, addrKind, accVars, calc>>
  /\ UNCHANGED hookVars

Next ==
  \/ \E kind \in AddressKinds : LookupWallet(kind)
  \/ \E step \in ArchiveSteps : ReplayEvent(step[1], step[2])
  \/ \E input \in FinishInputs : FinishLookup(input[1], input[2])

Spec == Init /\ [][Next]_vars

\* ------------------------------------------------------------------------
\* An archive whose timestamps may be unparseable
\* ------------------------------------------------------------------------

\* Events whose timestamp field is a string that is no date.
BadDateBodies ==
  { Body(1, 11, TRUE, 3, 0, 0, 0, 0, 0),
    Body(6, 15, TRUE, 4, 1, 0, 0, 24, 2) }

\* The next event of the archive carries an unparseable timestamp.
ReplayBadDateEvent(body) ==
  /\ pc = "replay"
  /\ Len(events) < MaxEvents
  /\ LET e == body @@ [signature |-> Len(events) + 1, timestamp |-> BadStamp]
     IN /\ events' = Append(events, e)
        /\ Replay(e)
  /\ UNCHANGED <<pc, tsFormat, clock, addrKind, metaEnd, current, result, calc>>
  /\ UNCHANGED hookVars

NextDates ==
  \/ Next
  \/ \E body \in BadDateBodies : ReplayBadDateEvent(body)

SpecDates == Init /\ [][NextDates]_vars

\* ------------------------------------------------------------------------
\* calculateLockedAmount as a function of its arguments
\* ------------------------------------------------------------------------

Schedule(startTime, lockedTuna, cliffHours, unlockPeriodHours, unlockRateTuna) ==
  [startTime |-> startTime, lockedTuna |-> lockedTuna, cliffHours |-> cliffHours,
   unlockPeriodHours |-> unlockPeriodHours, unlockRateTuna |-> unlockRateTuna]

\* Start instants T0 of the schedules passed to the function.
CalcStarts == {0, 36 * MsPerHour}

\* [lockedTuna, cliffHours, unlockPeriodHours, unlockRateTuna] of the
\* schedules passed to the function; a period or a rate of 0 included.
CalcShapes ==
  { <<250, 24, 24, 100>>, <<250, 0, 12, 100>>, <<7, 24, 12, 2>>, <<5, 0, 24, 5>>,
    <<250, 24, 0, 100>>, <<250, 24, 24, 0>>, <<250, 24, 0, 0>>, <<4, 0, 0, 2>> }

CalcSchedules ==
  { Schedule(t0, sh[1], sh[2], sh[3], sh[4]) : t0 \in CalcStarts, sh \in CalcShapes }

\* Instants passed to the function, in milliseconds after T0: whole hours
\* and the millisecond before each.
CalcOffsets ==
  { h * MsPerHour - d : h \in {-24, 0, 12, 24, 36, 48, 60, 72, 84, 96, 120, 240},
                        d \in {0, 1} }

InitCalc ==
  /\ pc = "calc"
  /\ tsFormat = "Z"
  /\ clock = 0
  /\ events = <<>>
  /\ addrKind = "unread"
  /\ staked = 0
  /\ unstaked = 0
  /\ realized_rewards = 0
  /\ vestingSchedules = <<>>
  /\ timeline = <<>>
  /\ operations = <<>>
  /\ metaEnd = <<>>
  /\ current = [present |-> FALSE, vals |-> <<>>]
  /\ result = NoResult
  /\ calc = NoCall
  /\ HookMounted

\* calculateLockedAmount(schedule, new Date(schedule.startTime + offset))
Calculate(schedule, offset) ==
  /\ pc = "calc"
  /\ calc' = [made |-> TRUE, schedule |-> schedule,
              currentTime |-> schedule.startTime + offset,
              value |-> calculateLockedAmount(schedule, schedule.startTime + offset)]
  /\ UNCHANGED <<pc, tsFormat, clock, events, addrKind, accVars, metaEnd,
                 current, result>>
  /\ UNCHANGED hookVars

NextCalc == \E schedule \in CalcSchedules, offset \in CalcOffsets :
              Calculate(schedule, offset)

SpecCalc == InitCalc /\ [][NextCalc]_vars

\* ------------------------------------------------------------------------
\* useWalletTimeline
\* ------------------------------------------------------------------------

InitHook ==
  /\ pc = "hook"
  /\ tsFormat = "offset"
  /\ clock = 0
  /\ events = <<>>
  /\ addrKind = "unread"
  /\ staked = 0
  /\ unstaked = 0
  /\ realized_rewards = 0
  /\ vestingSchedules = <<>>
  /\ timeline = <<>>
  /\ operations = <<>>
  /\ metaEnd = <<>>
  /\ current = [present |-> FALSE, vals |-> <<>>]
  /\ result = NoResult
  /\ calc = NoCall
  /\ HookMounted

\* The component renders with another walletAddress: the cleanup of lines
\* 549-554 and the effect of lines 527-547 run.  A non-empty address is
\* taken only while fewer than MaxLookups calls of loadTimeline have started,
\* so that the timer it starts can fire.
SetWalletAddress(a) ==
  /\ pc = "hook"
  /\ isMounted
  /\ a # walletAddress
  /\ IsEmptyAddress(a) \/ Len(lookups) < MaxLookups
  /\ walletAddress' = a
  /\ sinceChange' = 0
  /\ LET cleared == ClearTimeout(timers, debounceTimeoutRef)
         id == FreshTimerId(cleared, 0)
     IN IF IsEmptyAddress(a)
        THEN /\ timers' = cleared
             /\ debounceTimeoutRef' = 0
             /\ data' = NoData
             /\ error' = <<>>
             /\ loading' = FALSE
        ELSE /\ timers' = cleared \cup {[id |-> id, address |-> Trim(a), elapsed |-> 0]}
             /\ debounceTimeoutRef' = id
             /\ UNCHANGED <<data, error, loading>>
  /\ UNCHANGED <<isMounted, lookups>>
  /\ UNCHANGED parseVars

\* d milliseconds pass while a timer is running.
Tick(d) ==
  /\ pc = "hook"
  /\ \E t \in timers : t.elapsed < DebounceMs
  /\ sinceChange' = IF sinceChange + d > DebounceMs THEN DebounceMs
                    ELSE sinceChange + d
  /\ timers' = { [t EXCEPT !.elapsed = IF t.elapsed + d > DebounceMs
                                       THEN DebounceMs ELSE t.elapsed + d] :
                 t \in timers }
  /\ UNCHANGED <<isMounted, walletAddress, data, loading, error,
                 debounceTimeoutRef, lookups>>
  /\ UNCHANGED parseVars

\* A timer whose delay has passed fires: loadTimeline(address) runs up to
\* its first await (lines 474-482).
FireTimer ==
  /\ pc = "hook"
  /\ \E t \in timers :
       /\ t.elapsed >= DebounceMs
       /\ timers' = timers \ {t}
       /\ IF ~isMounted
          THEN UNCHANGED <<loading, error, lookups>>
          ELSE /\ loading' = TRUE
               /\ error' = <<>>
               /\ lookups' = Append(lookups,
                    Lookup(t.address, "fetch", NoPayload, <<"fetch">>))
  /\ UNCHANGED <<isMounted, walletAddress, data, debounceTimeoutRef, sinceChange>>
  /\ UNCHANGED parseVars

\* Fail that leaves data as it is.
Fail_KeepsData(i, message, payload, calls) ==
  /\ lookups' = [lookups EXCEPT ![i] =
       Lookup(lookups[i].address, "done", payload, lookups[i].calls \o calls)]
  /\ IF MayApply(isMounted)
     THEN /\ error' = <<message>>
          /\ data' = data
          /\ loading' = FALSE
     ELSE UNCHANGED <<data, error, loading>>

\* The catch and finally blocks of lines 514-524 for the call i.
Fail(i, message, payload, calls) ==
  /\ lookups' = [lookups EXCEPT ![i] =
       Lookup(lookups[i].address, "done", payload, lookups[i].calls \o calls)]
  /\ IF MayApply(isMounted)
     THEN /\ error' = <<message>>
          /\ data' = NoData
          /\ loading' = FALSE
     ELSE UNCHANGED <<data, error, loading>>

\* Succeed without the finally block.
Succeed_LeavesLoading(i, res, payload, calls) ==
  /\ lookups' = [lookups EXCEPT ![i] =
       Lookup(lookups[i].address, "done", payload, lookups[i].calls \o calls)]
  /\ IF MayApply(isMounted)
     THEN /\ data' = res
          /\ error' = IF ~res.found THEN <<res.error>> ELSE error
          /\ loading' = loading
     ELSE UNCHANGED <<data, error, loading>>

\* Lines 508-513 and 520-524 for the call i.
Succeed(i, res, payload, calls) ==
  /\ lookups' = [lookups EXCEPT ![i] =
       Lookup(lookups[i].address, "done", payload, lookups[i].calls \o calls)]
  /\ IF MayApply(isMounted)
     THEN /\ data' = res
          /\ error' = IF ~res.found THEN <<res.error>> ELSE error
          /\ loading' = FALSE
     ELSE UNCHANGED <<data, error, loading>>

\* The fetch of the call i settles (lines 482-487).
FetchSettles(i, response) ==
  /\ pc = "hook"
  /\ i \in 1..Len(lookups)
  /\ lookups[i].stage = "fetch"
  /\ IF response = "reject" THEN Fail(i, ErrFetchRejected, NoPayload, <<>>)
     ELSE IF response = "notok" THEN Fail(i, ErrNotOk, NoPayload, <<>>)
     ELSE /\ lookups' = [lookups EXCEPT ![i] =
               Lookup(lookups[i].address, "body", NoPayload,
                      lookups[i].calls \o <<"arrayBuffer">>)]
          /\ UNCHANGED <<data, error, loading>>
  /\ UNCHANGED <<isMounted, walletAddress, debounceTimeoutRef, timers, sinceChange>>
  /\ UNCHANGED parseVars

\* response.arrayBuffer() of the call i settles and the call runs to its
\* end (lines 487-524).
BodySettles(i, body) ==
  /\ pc = "hook"
  /\ i \in 1..Len(lookups)
  /\ lookups[i].stage = "body"
  /\ LET decoded == Decode(lookups[i].address, body)
     IN IF body = NoPayload THEN Fail(i, ErrFetchRejected, NoPayload, <<>>)
        ELSE IF decoded.thrown # <<>>
        THEN Fail(i, decoded.thrown[1], body, decoded.calls)
        ELSE Succeed(i, decoded.result, body, decoded.calls)
  /\ UNCHANGED <<isMounted, walletAddress, debounceTimeoutRef, timers, sinceChange>>
  /\ UNCHANGED parseVars

\* The component unmounts: the cleanups of lines 549-554 and 560-562 run.
Unmount ==
  /\ pc = "hook"
  /\ isMounted
  /\ timers' = ClearTimeout(timers, debounceTimeoutRef)
  /\ debounceTimeoutRef' = IF IsEmptyAddress(walletAddress)
                           THEN debounceTimeoutRef ELSE 0
  /\ isMounted' = FALSE
  /\ UNCHANGED <<walletAddress, data, loading, error, lookups, sinceChange>>
  /\ UNCHANGED parseVars

NextHook ==
  \/ \E a \in AddressInputs : SetWalletAddress(a)
  \/ \E d \in Ticks : Tick(d)
  \/ FireTimer
  \/ \E i \in 1..MaxLookups, response \in Responses : FetchSettles(i, response)
  \/ \E i \in 1..MaxLookups, body \in Bodies : BodySettles(i, body)
  \/ Unmount

SpecHook == InitHook /\ [][NextHook]_vars

\* The hook under the scheduling of the runtime: time passes while a timer
\* runs, a timer whose delay has passed fires, and every pending promise of
\* a call (fetch, arrayBuffer) settles.
FairHook ==
  /\ WF_vars(\E d \in Ticks : Tick(d))
  /\ WF_vars(FireTimer)
  /\ \A i \in 1..MaxLookups :
       /\ WF_vars(\E response \in Responses : FetchSettles(i, response))
       /\ WF_vars(\E body \in Bodies : BodySettles(i, body))

SpecHookLive == InitHook /\ [][NextHook]_vars /\ FairHook

\* ------------------------------------------------------------------------
\* WalletTimelineChart: the marker of an operation
\* ------------------------------------------------------------------------

\* baseY = timeline[idx]?.staked || 0 for the operation at position idx of
\* operations (positions count from 1 here); points is the timeline prop.
MarkerBaseY(points, idx) ==
  IF idx > Len(points) THEN 0 ELSE points[idx].staked

\* ------------------------------------------------------------------------
\* Properties
\* ------------------------------------------------------------------------

\* The lookup has returned a found = true result.
FoundResult == pc = "done" /\ result.found

\* The indices of the events read so far that carry the wallet's address and
\* have at least 11 fields.
WellFormedIdx == {i \in 1..Len(events) : events[i].mine /\ events[i].len >= 11}

\* Sum of f[i] over the finite set S of integers.
RECURSIVE SumOver(_, _)
SumOver(S, f) ==
  IF S = {} THEN 0
  ELSE LET i == CHOOSE j \in S : TRUE IN f[i] + SumOver(S \ {i}, f)

\* C1: in a found result every point of the finished timeline (event point,
\* unlock point, coverage-end point) has locked <= staked.
C1_LockedAtMostStaked ==
  FoundResult =>
    \A i \in 1..Len(result.timeline) :
      JsLE(result.timeline[i].locked, result.timeline[i].staked)

\* C1 witness: a finished timeline with an unlock point and a coverage-end
\* point, on one of which the schedules' remaining sum exceeds the staked
\* balance and locked is clamped to it.
C1_Witness ==
  /\ FoundResult
  /\ \E i, j \in 1..Len(result.timeline) :
       /\ result.timeline[i].kind = "unlock"
       /\ result.timeline[j].kind = "end"
       /\ result.timeline[i].staked > 0
       /\ result.timeline[i].locked = result.timeline[i].staked
       /\ RawLocked(vestingSchedules, result.timeline[i].date.ms)
            > result.timeline[i].staked
       /\ result.timeline[j].locked < result.timeline[j].staked

\* C2 (as claimed): every point of the finished timeline has staked,
\* unstaked, locked and realized_rewards >= 0.
C2_AllFieldsNonNegative ==
  FoundResult =>
    \A i \in 1..Len(result.timeline) :
      /\ JsLE(0, result.timeline[i].staked)
      /\ JsLE(0, result.timeline[i].unstaked)
      /\ JsLE(0, result.timeline[i].locked)
      /\ JsLE(0, result.timeline[i].realized_rewards)

\* The well-formed events among the first n of the archive; with noVesting,
\* those that are not set_vesting events.
Replayed(n, noVesting) ==
  {i \in WellFormedIdx : i <= n /\ (noVesting => events[i].type_id # 6)}

DStakeOf == [i \in 1..Len(events) |-> events[i].d_stake]
DPendingOf == [i \in 1..Len(events) |-> events[i].d_pending]

\* C3 (as claimed): after each replayed event the running staked and
\* unstaked totals are the sums of d_stake and d_pending over all the
\* well-formed events replayed so far, whatever their types.
C3_TotalsSumAllEvents ==
  pc = "replay" =>
    /\ staked = SumOver(Replayed(Len(events), FALSE), DStakeOf)
    /\ unstaked = SumOver(Replayed(Len(events), FALSE), DPendingOf)

\* C3 (amended): the running totals are the sums of d_stake and d_pending
\* over the well-formed events replayed so far that are not set_vesting
\* events, whatever the types of those events; every event point carries
\* these sums, rounded, as of its event.
C3_TotalsSumNonVestingEvents ==
  pc = "replay" =>
    /\ staked = SumOver(Replayed(Len(events), TRUE), DStakeOf)
    /\ unstaked = SumOver(Replayed(Len(events), TRUE), DPendingOf)
    /\ \A k \in 1..Len(timeline) :
         /\ timeline[k].staked
              = Round6(SumOver(Replayed(timeline[k].src, TRUE), DStakeOf))
         /\ timeline[k].unstaked
              = Round6(SumOver(Replayed(timeline[k].src, TRUE), DPendingOf))

\* C3 witness: three events replayed, among them a set_vesting event with a
\* non-zero d_stake and d_pending and an event of unknown type.
C3_Witness ==
  /\ pc = "replay"
  /\ Len(timeline) = 3
  /\ \E i, j \in WellFormedIdx :
       /\ events[i].type_id = 6
       /\ events[i].d_stake # 0
       /\ events[i].d_pending # 0
       /\ events[j].type_id = 7
  /\ staked # 0
  /\ unstaked # 0

\* The well-formed set_vesting events read so far whose locked amount,
\* unlock period and unlock rate are all positive.
DeclaringIdx ==
  {i \in WellFormedIdx : /\ events[i].type_id = 6
                         /\ events[i].len >= 15
                         /\ events[i].d_stake # 0
                         /\ events[i].unlockPeriodHours > 0
                         /\ events[i].unlockRateTuna > 0}

\* The schedule that the set_vesting event i declares.
DeclaredSchedule(i) ==
  Schedule(events[i].timestamp.ms,
           IF events[i].d_stake < 0 THEN -events[i].d_stake ELSE events[i].d_stake,
           events[i].cliffHours, events[i].unlockPeriodHours,
           events[i].unlockRateTuna)

\* Sum of the remaining locked amounts of the schedules declared by the
\* events of D, at instant t.
DeclaredLocked(D, t) ==
  SumOver(D, [i \in 1..Len(events) |->
                calculateLockedAmount(DeclaredSchedule(i), t)])

\* C4 (as claimed): with two set_vesting events declaring schedules, equal
\* locked amounts included, every point of the finished timeline dated t has
\* locked = min(staked, sum of the two schedules' remaining amounts at t).
C4_TwoSchedulesSumEverywhere ==
  (FoundResult /\ Cardinality(DeclaringIdx) = 2) =>
    \A k \in 1..Len(result.timeline) :
      LET p == result.timeline[k]
      IN p.locked = MathMin(p.staked, DeclaredLocked(DeclaringIdx, p.date.ms))

\* C4 (amended): with two set_vesting events declaring schedules of
\* different locked amounts, every synthetic point and every event point
\* from the second of the two events on, dated t, has
\* locked = min(staked, the 6-decimal rounding of the sum of the two
\* schedules' remaining amounts at t).
C4_TwoDistinctSchedulesSum ==
  (/\ FoundResult
   /\ Cardinality(DeclaringIdx) = 2
   /\ \A i, j \in DeclaringIdx : i # j => events[i].d_stake # events[j].d_stake
                                          /\ events[i].d_stake # -events[j].d_stake) =>
    \A k \in 1..Len(result.timeline) :
      LET p == result.timeline[k]
      IN (p.kind = "event" => \A i \in DeclaringIdx : i <= p.src) =>
           p.locked = MathMin(p.staked,
                              Round6(DeclaredLocked(DeclaringIdx, p.date.ms)))

\* C4 witness: two schedules of different locked amounts, and an unlock
\* point where both still hold a positive remainder whose sum is below the
\* staked balance.
C4_Witness ==
  /\ FoundResult
  /\ Cardinality(DeclaringIdx) = 2
  /\ Len(vestingSchedules) = 2
  /\ \E k \in 1..Len(result.timeline) :
       LET p == result.timeline[k]
       IN /\ p.kind = "unlock"
          /\ p.locked > 0
          /\ p.locked < p.staked
          /\ \A i \in DeclaringIdx :
               /\ calculateLockedAmount(DeclaredSchedule(i), p.date.ms) > 0
               /\ calculateLockedAmount(DeclaredSchedule(i), p.date.ms) < p.locked

\* Milliseconds between the start of the schedule of the call and its instant.
CalcElapsed == calc.currentTime - calc.schedule.startTime

\* The schedule of the vesting boundary test, started at t0.
BoundarySchedule(t0) == Schedule(t0, 250, 24, 24, 100)

\* C5: calculateLockedAmount returns the full locked amount before the cliff
\* end and max(0, lockedTuna - n * unlockRateTuna) afterwards, n being the
\* number of complete unlock periods since the cliff end; for the schedule
\* (cliff 24 h, period 24 h, rate 100, locked 250) it returns 250 before
\* T0+24h, 150 at T0+48h, 50 at T0+72h and 0 from T0+96h on.
C5_LockedAmountFormula ==
  (calc.made /\ calc.schedule.unlockPeriodHours > 0) =>
    LET s == calc.schedule
        cliffMs == s.cliffHours * MsPerHour
        periodMs == s.unlockPeriodHours * MsPerHour
    IN /\ CalcElapsed < cliffMs => calc.value = s.lockedTuna
       /\ CalcElapsed >= cliffMs =>
            \E n \in 0..((CalcElapsed - cliffMs) \div MsPerHour) :
              /\ n * periodMs <= CalcElapsed - cliffMs
              /\ CalcElapsed - cliffMs < (n + 1) * periodMs
              /\ calc.value = IF s.lockedTuna - n * s.unlockRateTuna > 0
                              THEN s.lockedTuna - n * s.unlockRateTuna ELSE 0
       /\ s = BoundarySchedule(s.startTime) =>
            /\ CalcElapsed < 24 * MsPerHour => calc.value = 250
            /\ CalcElapsed = 48 * MsPerHour => calc.value = 150
            /\ CalcElapsed = 72 * MsPerHour => calc.value = 50
            /\ CalcElapsed >= 96 * MsPerHour => calc.value = 0

\* C5 witness: the boundary schedule, started at a non-zero instant, asked
\* at T0+72h, where 50 remain.
C5_Witness ==
  /\ calc.made
  /\ calc.schedule.startTime > 0
  /\ calc.schedule = BoundarySchedule(calc.schedule.startTime)
  /\ CalcElapsed = 72 * MsPerHour
  /\ calc.value = 50

C8_NotFoundExactly ==
  pc = "done" =>
    LET absent == addrKind = "absent"
        noIndex == addrKind = "noidx"
        noEvents == addrKind = "present" /\ \A i \in 1..Len(events) : ~events[i].mine
        noneWellFormed == addrKind = "present" /\ ~noEvents /\ WellFormedIdx = {}
    IN /\ result.found = ~(absent \/ noIndex \/ noEvents \/ noneWellFormed)
       /\ ~result.found =>
            /\ result.error # ""
            /\ DOMAIN result \cap {"timeline", "operations", "summary"} = {}
       /\ result.found =>
            /\ Len(result.timeline) > 0
            /\ Len(result.operations) > 0
       /\ LET message == [k \in {1, 2, 3} |->
                            CASE k = 1 -> ErrNotInCache
                              [] k = 2 -> ErrNoEventData
                              [] k = 3 -> ErrNoEvents]
          IN /\ \A k, l \in {1, 2, 3} : k # l => message[k] # message[l]
             /\ absent => result.error = message[1]
             /\ noIndex => result.error = message[2]
             /\ noEvents => result.error = message[3]

\* C8 witness: the wallet has an address record and events in the archive,
\* none of them with 11 fields, and the lookup answered found = false.
C8_Witness ==
  /\ pc = "done"
  /\ addrKind = "present"
  /\ \E i \in 1..Len(events) : events[i].mine
  /\ \E i \in 1..Len(events) : ~events[i].mine
  /\ WellFormedIdx = {}
  /\ ~result.found
  /\ result.error = ErrNoTimeline

\* C9 (as claimed): summary.current_staked and current_unstaked are
\* current[0] and current[1] of the address record when it has a current
\* snapshot, and the staked and unstaked of the last timeline point when it
\* has none.
C9_CurrentOrLastPoint ==
  FoundResult =>
    LET lastPoint == result.timeline[Len(result.timeline)]
    IN /\ (current.present /\ Len(current.vals) >= 2) =>
            /\ result.summary.current_staked = current.vals[1]
            /\ result.summary.current_unstaked = current.vals[2]
       /\ ~current.present =>
            /\ result.summary.current_staked = lastPoint.staked
            /\ result.summary.current_unstaked = lastPoint.unstaked

\* C10 (as claimed): days_active is the number of points of the finished
\* timeline when the first timeline date or the last activity date does not
\* parse, and floor((last_activity - first_stake) / 1 day) + 1 when both do.
C10_DaysActiveFallsBack ==
  FoundResult =>
    LET first == result.timeline[1].date
        lastActivity == result.operations[Len(result.operations)].date
    IN IF first.fmt = "bad" \/ lastActivity.fmt = "bad"
       THEN result.summary.days_active = Len(result.timeline)
       ELSE result.summary.days_active
              = ((lastActivity.ms - first.ms) \div MsPerDay) + 1

\* The first and the last of the well-formed events read.
FirstWellFormed == CHOOSE i \in WellFormedIdx : \A j \in WellFormedIdx : i <= j
LastWellFormed == CHOOSE i \in WellFormedIdx : \A j \in WellFormedIdx : j <= i

\* C11 (as claimed): summary.first_stake_date is the timestamp of the
\* wallet's first well-formed event and summary.last_activity_date the
\* timestamp of its last well-formed event, whatever points the extender
\* adds.
C11_SummaryDatesAreEventDates ==
  FoundResult =>
    /\ result.summary.first_stake_date = events[FirstWellFormed].timestamp
    /\ result.summary.last_activity_date = events[LastWellFormed].timestamp

\* C17: a well-formed event whose type ordinal is outside 0..6 adds its
\* d_stake to staked and its d_pending to unstaked, appends one timeline
\* point carrying the new totals and one operation of type 'unknown', label
\* 'Unknown' and amount 0, and leaves the replay running.
C17_UnknownTypeStillApplied ==
  [][(/\ pc = "replay"
      /\ Len(events') = Len(events) + 1
      /\ events'[Len(events')].mine
      /\ events'[Len(events')].len >= 11
      /\ events'[Len(events')].type_id \notin 0..6) =>
       LET e == events'[Len(events')]
           point == timeline'[Len(timeline')]
           operation == operations'[Len(operations')]
       IN /\ staked' = staked + e.d_stake
          /\ unstaked' = unstaked + e.d_pending
          /\ Len(timeline') = Len(timeline) + 1
          /\ point.date = e.timestamp
          /\ point.staked = Round6(staked + e.d_stake)
          /\ point.unstaked = Round6(unstaked + e.d_pending)
          /\ Len(operations') = Len(operations) + 1
          /\ operation.type = "unknown"
          /\ operation.type_label = "Unknown"
          /\ operation.amount = 0
          /\ operation.signature = e.signature
          /\ pc' = "replay"
          /\ vestingSchedules' = vestingSchedules]_vars

\* C17 witness: an event of unknown type with non-zero deltas was replayed
\* and a later event of the wallet was replayed after it.
C17_Witness ==
  /\ pc = "replay"
  /\ \E i, j \in WellFormedIdx :
       /\ i < j
       /\ events[i].type_id \notin 0..6
       /\ events[i].d_stake # 0
       /\ events[i].d_pending # 0
       /\ \E k, l \in 1..Len(timeline) :
            /\ timeline[k].src = i
            /\ timeline[l].src = j
            /\ operations[k].type = "unknown"
            /\ operations[l].type # "unknown"

\* The schedule set after the first n events of the archive.
RECURSIVE SchedulesUpTo(_)
SchedulesUpTo(n) ==
  IF n = 0 THEN <<>>
  ELSE IF ~IsWalletEvent(events[n]) \/ IsMalformed(events[n])
       THEN SchedulesUpTo(n - 1)
       ELSE SchedulesAfter(SchedulesUpTo(n - 1), events[n])

\* The number of events of the archive dated at or before instant t.
EventsUpTo(t) == Cardinality({i \in 1..Len(events) : events[i].timestamp.ms <= t})

\* C18 (as claimed): every point of the finished timeline dated t has
\* locked = min(staked, sum of the remaining amounts at t of the schedules
\* as the set_vesting events at or before t left them): for an event point
\* the events up to its own, for a synthetic point the events dated at or
\* before t.
C18_LockedCountsDeclaredSchedulesOnly ==
  FoundResult =>
    \A k \in 1..Len(result.timeline) :
      LET p == result.timeline[k]
          declared == IF p.kind = "event" THEN SchedulesUpTo(p.src)
                      ELSE SchedulesUpTo(EventsUpTo(p.date.ms))
      IN p.locked = MathMin(Round6(RawLocked(declared, p.date.ms)), p.staked)

\* C20 (as claimed): in the finished timeline every unlock point and
\* coverage-end point has the staked, unstaked and realized_rewards of the
\* point immediately before it.
C20_SyntheticPointsCarryForward ==
  FoundResult =>
    \A k \in 2..Len(result.timeline) :
      result.timeline[k].kind # "event" =>
        /\ result.timeline[k].staked = result.timeline[k - 1].staked
        /\ result.timeline[k].unstaked = result.timeline[k - 1].unstaked
        /\ result.timeline[k].realized_rewards
             = result.timeline[k - 1].realized_rewards

\* The call l of loadTimeline has made the call named name.
Called(l, name) == \E k \in 1..Len(l.calls) : l.calls[k] = name

\* C12 (as claimed): once a call of loadTimeline has fetched and decoded the
\* archive, no later call issues a fetch.
C12_ArchiveFetchedOnce ==
  [][(\E i \in 1..Len(lookups) :
        lookups[i].stage = "done" /\ Called(lookups[i], "JSON.parse")
          /\ lookups[i].payload.jsonOk) =>
       \A j \in (Len(lookups) + 1)..Len(lookups') :
         ~Called(lookups'[j], "fetch")]_vars

\* C13: once the component has unmounted no timer is pending, no call of
\* loadTimeline starts, and no step changes data, error or loading.
C13_UnmountedHookIsInert ==
  /\ [](~isMounted => timers = {})
  /\ [][~isMounted => /\ data' = data
                      /\ error' = error
                      /\ loading' = loading
                      /\ Len(lookups') = Len(lookups)]_vars

\* C13 witness: the component unmounted less than a debounce delay after
\* its address changed, while a call for the address before was in flight;
\* that call then decoded the archive and its result was discarded.
C13_Witness ==
  /\ ~isMounted
  /\ ~IsEmptyAddress(walletAddress)
  /\ sinceChange < DebounceMs
  /\ Len(lookups) = 1
  /\ lookups[1].address # Trim(walletAddress)
  /\ lookups[1].stage = "done"
  /\ Called(lookups[1], "parseWalletTimeline")
  /\ loading
  /\ data = NoData

\* C14: at most one timer is pending, it is for the current address and has
\* run since that address was set; an empty or whitespace-only address has
\* no timer; a call of loadTimeline starts only when the address has been
\* unchanged for the debounce delay, one at a time, for the trimmed current
\* address, which is not empty.
C14_DebouncedLookup ==
  /\ [](/\ Cardinality(timers) <= 1
        /\ IsEmptyAddress(walletAddress) => timers = {}
        /\ \A t \in timers : /\ t.address = Trim(walletAddress)
                             /\ t.elapsed = sinceChange
                             /\ t.id = debounceTimeoutRef)
  /\ [][Len(lookups') > Len(lookups) =>
          /\ Len(lookups') = Len(lookups) + 1
          /\ sinceChange >= DebounceMs
          /\ ~IsEmptyAddress(walletAddress)
          /\ lookups'[Len(lookups')].address = Trim(walletAddress)
          /\ timers' = {}]_vars

\* C14 witness: a lookup for wallet B has started and no lookup for wallet A
\* has, while the address is A again and its timer has run for half the
\* delay.
C14_Witness ==
  /\ isMounted
  /\ Len(lookups) = 1
  /\ lookups[1].address = "B"
  /\ Trim(walletAddress) = "A"
  /\ walletAddress.pad
  /\ \E t \in timers : t.address = "A" /\ t.elapsed > 0 /\ t.elapsed < DebounceMs

\* C15 (as claimed): a body of more than 10 MiB is never inflated, a body
\* that inflates to more than 50 MiB is never parsed as JSON nor used to
\* reconstruct a timeline, and a body within both limits that inflates to
\* JSON is used.
C15_SizeLimitsReject ==
  \A i \in 1..Len(lookups) :
    (lookups[i].stage = "done" /\ lookups[i].payload # NoPayload) =>
      LET l == lookups[i]
          body == l.payload
      IN /\ body.compressedBytes > MAX_COMPRESSED_SIZE => ~Called(l, "ungzip")
         /\ (/\ body.compressedBytes <= MAX_COMPRESSED_SIZE
             /\ body.gzipOk
             /\ body.decompressedBytes > MAX_DECOMPRESSED_SIZE) =>
              /\ ~Called(l, "JSON.parse")
              /\ ~Called(l, "parseWalletTimeline")
         /\ (/\ body.compressedBytes <= MAX_COMPRESSED_SIZE
             /\ body.gzipOk
             /\ body.decompressedBytes <= MAX_DECOMPRESSED_SIZE
             /\ body.jsonOk) =>
              Called(l, "parseWalletTimeline")

\* C16: when a call of loadTimeline ends while the component is mounted,
\* after a failure (fetch rejected or not ok, body unreadable, size limit,
\* inflate or JSON error) the state is data = null, error = a non-empty
\* message, loading = false; after a decoded archive data is the result of
\* the wallet and, when that result is found = false, error is its message.
C16_FailureCommitsError ==
  [][\A i \in 1..Len(lookups) :
       (isMounted /\ lookups[i].stage # "done" /\ lookups'[i].stage = "done") =>
         IF ~Called(lookups'[i], "parseWalletTimeline")
         THEN /\ data' = NoData
              /\ Len(error') = 1
              /\ error'[1] # ""
              /\ loading' = FALSE
         ELSE /\ data' = parseWalletTimeline(lookups[i].address, SessionCache)
              /\ loading' = FALSE
              /\ ~data'.found => error' = <<data'.error>>]_vars

\* C16 witness: a first lookup found wallet A, a second one then failed on
\* the decompressed size limit: nothing of the first timeline is retained.
C16_Witness ==
  /\ isMounted
  /\ Len(lookups) = 2
  /\ lookups[1].stage = "done"
  /\ lookups[1].address = "A"
  /\ Called(lookups[1], "parseWalletTimeline")
  /\ lookups[2].stage = "done"
  /\ lookups[2].payload.decompressedLength > MAX_DECOMPRESSED_SIZE
  /\ data = NoData
  /\ error = <<ErrDecompressedTooLarge>>
  /\ ~loading

\* No timer is pending and no call of loadTimeline is in flight.
Quiet ==
  /\ timers = {}
  /\ \A i \in 1..Len(lookups) : lookups[i].stage = "done"

\* C19 (as claimed): when the hook is quiet and the component mounted, data
\* is null if the address is empty and otherwise, when not null, is the
\* result for the current address.
C19_QuietDataIsForCurrentAddress ==
  (isMounted /\ Quiet) =>
    IF IsEmptyAddress(walletAddress) THEN data = NoData
    ELSE data # NoData => data.wallet = Trim(walletAddress)

\* The staked balance right after the event of signature sig was applied,
\* as the replay's event point records it.
StakedAfterEvent(sig) ==
  LET k == CHOOSE j \in 1..Len(timeline) : timeline[j].src = sig
  IN timeline[k].staked

\* C21 (as claimed): in a found result the timeline point at the position
\* of each operation is the point its event produced (same timestamp, same
\* event), so the chart's marker for the operation stands at the staked
\* balance right after that operation; unlock points sorted into the
\* timeline included.
C21_OperationsAlignWithTimeline ==
  FoundResult =>
    \A i \in 1..Len(result.operations) :
      /\ result.timeline[i].date = result.operations[i].date
      /\ result.timeline[i].src = result.operations[i].signature
      /\ MarkerBaseY(result.timeline, i)
           = StakedAfterEvent(result.operations[i].signature)

\* The positions of the schedules of locked amount amt in the sequence.
WithLocked(schedules, amt) ==
  {k \in 1..Len(schedules) : schedules[k].lockedTuna = amt}

\* C22: a well-formed set_vesting event whose |d_stake|, unlock period and
\* unlock rate are all positive leaves exactly one schedule of that locked
\* amount, with the event's timestamp as start time and its cliff, period
\* and rate; it replaces the schedule of that amount in place when there is
\* one and is appended otherwise, every other schedule unchanged.  When one
\* of the three is not positive the schedule set is unchanged.  In both
\* cases staked and unstaked are unchanged and one timeline point and one
\* operation are emitted for the event.
C22_SetVestingUpdatesSchedules ==
  [][(/\ pc = "replay"
      /\ Len(events') = Len(events) + 1
      /\ events'[Len(events')].mine
      /\ events'[Len(events')].len >= 11
      /\ events'[Len(events')].type_id = 6) =>
       LET e == events'[Len(events')]
           amt == IF e.d_stake < 0 THEN 0 - e.d_stake ELSE e.d_stake
           cliff == IF e.len >= 13 THEN e.cliffHours ELSE 0
           period == IF e.len >= 14 THEN e.unlockPeriodHours ELSE 0
           rate == IF e.len >= 15 THEN e.unlockRateTuna ELSE 0
           declared == [startTime |-> e.timestamp.ms, lockedTuna |-> amt,
                        cliffHours |-> cliff, unlockPeriodHours |-> period,
                        unlockRateTuna |-> rate]
       IN /\ IF amt > 0 /\ period > 0 /\ rate > 0
             THEN /\ Cardinality(WithLocked(vestingSchedules', amt)) = 1
                  /\ \A k \in WithLocked(vestingSchedules', amt) :
                       vestingSchedules'[k] = declared
                  /\ IF WithLocked(vestingSchedules, amt) # {}
                     THEN /\ Len(vestingSchedules') = Len(vestingSchedules)
                          /\ \A k \in 1..Len(vestingSchedules) :
                               k \notin WithLocked(vestingSchedules, amt) =>
                                 vestingSchedules'[k] = vestingSchedules[k]
                     ELSE vestingSchedules' = Append(vestingSchedules, declared)
             ELSE vestingSchedules' = vestingSchedules
          /\ staked' = staked
          /\ unstaked' = unstaked
          /\ Len(timeline') = Len(timeline) + 1
          /\ SubSeq(timeline', 1, Len(timeline)) = timeline
          /\ timeline'[Len(timeline')].date = e.timestamp
          /\ timeline'[Len(timeline')].src = e.signature
          /\ Len(operations') = Len(operations) + 1
          /\ SubSeq(operations', 1, Len(operations)) = operations
          /\ operations'[Len(operations')].type = "set_vesting"
          /\ operations'[Len(operations')].signature = e.signature]_vars

\* C22 witness: two schedules are declared and a third set_vesting event
\* with the locked amount of the first has replaced it in place, while the
\* balances were not zero.
C22_Witness ==
  /\ pc = "replay"
  /\ Len(events) = 3
  /\ \A i \in 1..3 : events[i].type_id = 6
  /\ Len(vestingSchedules) = 2
  /\ vestingSchedules[1].lockedTuna = events[1].d_stake
  /\ vestingSchedules[1].startTime = events[3].timestamp.ms
  /\ vestingSchedules[1].unlockRateTuna # events[1].unlockRateTuna
  /\ Len(timeline) = 3
  /\ Len(operations) = 3

\* The instant of the coverage-end timestamp <meta.end>T23:59:59Z.
CoverageEnd == (metaEnd[1] + 1) * MsPerDay - MsPerSecond

\* The least n with n * rate >= locked, for positive locked and rate.
CeilDiv(locked, rate) ==
  CHOOSE n \in 0..locked : n * rate >= locked /\ (n = 0 \/ (n - 1) * rate < locked)

\* The unlock boundaries of a schedule: start + cliff + i * period for i in
\* 0..ceil(lockedAmount / unlockRate).
Boundaries(schedule) ==
  { schedule.startTime + schedule.cliffHours * MsPerHour
      + i * schedule.unlockPeriodHours * MsPerHour :
    i \in 0..CeilDiv(schedule.lockedTuna, schedule.unlockRateTuna) }

\* The lookup found the wallet, the wallet has schedules and the archive
\* names its coverage end.
ExtendedWithVesting ==
  FoundResult /\ Len(vestingSchedules) > 0 /\ metaEnd # <<>>

\* C23: when the wallet has at least one schedule, every unlock boundary of
\* every schedule of the final set that is not after the coverage end has a
\* point of the finished timeline dated at that instant, and no unlock point
\* is dated after the coverage end.
C23_UnlockBoundariesHavePoints ==
  ExtendedWithVesting =>
    /\ \A n \in 1..Len(vestingSchedules) :
         \A b \in Boundaries(vestingSchedules[n]) :
           b <= CoverageEnd =>
             \E k \in 1..Len(result.timeline) :
               /\ result.timeline[k].date.fmt # "bad"
               /\ result.timeline[k].date.ms = b
    /\ \A k \in 1..Len(result.timeline) :
         result.timeline[k].kind = "unlock" =>
           result.timeline[k].date.ms <= CoverageEnd

\* C23 witness: a schedule whose last boundary (i = ceil(locked / rate), a
\* partial last period) has an unlock point, and another schedule with a
\* boundary after the coverage end, which has no point.
C23_Witness ==
  /\ ExtendedWithVesting
  /\ \E n \in 1..Len(vestingSchedules) :
       LET s == vestingSchedules[n]
           last == s.startTime + s.cliffHours * MsPerHour
                     + CeilDiv(s.lockedTuna, s.unlockRateTuna)
                         * s.unlockPeriodHours * MsPerHour
       IN /\ s.lockedTuna % s.unlockRateTuna # 0
          /\ \E k \in 1..Len(result.timeline) :
               /\ result.timeline[k].kind = "unlock"
               /\ result.timeline[k].date.ms = last
  /\ \E n \in 1..Len(vestingSchedules) :
       \E b \in Boundaries(vestingSchedules[n]) :
         /\ b > CoverageEnd
         /\ \A k \in 1..Len(result.timeline) : result.timeline[k].date.ms # b

\* The timeline as the unlock loop leaves it: the event points followed by
\* the unlock points in the order of their insertion.
WithUnlockPoints ==
  AddUnlockPoints(timeline, {timeline[i].date : i \in 1..Len(timeline)},
                  vestingSchedules,
                  CollectUnlockTimes(vestingSchedules, CoverageEnd, 1), 1)

\* The position, among the first n points of points, of the point with the
\* greatest timestamp not later than instant b: the last one of them when
\* several points share that timestamp.
LatestNotAfter(points, n, b) ==
  CHOOSE k \in 1..n :
    /\ points[k].date.ms <= b
    /\ \A j \in 1..n :
         points[j].date.ms <= b =>
           \/ points[j].date.ms < points[k].date.ms
           \/ (points[j].date.ms = points[k].date.ms /\ j <= k)

C26_FinishedTimelineIsChronological ==
  FoundResult =>
    \A k \in 1..(Len(result.timeline) - 1) :
      /\ result.timeline[k].date.fmt # "bad"
      /\ result.timeline[k + 1].date.fmt # "bad"
      /\ result.timeline[k].date.ms <= result.timeline[k + 1].date.ms

\* C26 witness: an unlock point that was inserted after a later event point
\* stands before it in the finished timeline, which ends with the
\* coverage-end point.
C26_Witness ==
  /\ ExtendedWithVesting
  /\ result.timeline[Len(result.timeline)].kind = "end"
  /\ \E k \in 1..(Len(result.timeline) - 1) :
       /\ result.timeline[k].kind = "unlock"
       /\ result.timeline[k + 1].kind = "event"
       /\ result.timeline[k].date.ms < result.timeline[k + 1].date.ms

\* The signatures of the well-formed events among the first n events, in
\* archive order.
RECURSIVE WellFormedUpTo(_)
WellFormedUpTo(n) ==
  IF n = 0 THEN <<>>
  ELSE IF n \in WellFormedIdx THEN Append(WellFormedUpTo(n - 1), n)
       ELSE WellFormedUpTo(n - 1)

\* The operations are those of the well-formed events, one for one and in
\* order, each with the signature and the timestamp of its event.
OperationsMatchEvents(ops) ==
  LET wellFormed == WellFormedUpTo(Len(events))
  IN /\ Len(ops) = Len(wellFormed)
     /\ \A k \in 1..Len(ops) :
          /\ ops[k].signature = events[wellFormed[k]].signature
          /\ ops[k].date = events[wellFormed[k]].timestamp

\* C27: an event of the wallet with fewer than 11 fields changes no
\* balance, no schedule and emits neither a point nor an operation, and the
\* replay goes on with the events after it; the operations correspond one
\* for one, in order, to the wallet's well-formed events (same signature and
\* timestamp), summary.total_operations is their number, and the extender
\* adds no operation.
C27_MalformedSkippedOperationsMatch ==
  /\ [][(/\ pc = "replay"
         /\ Len(events') = Len(events) + 1
         /\ events'[Len(events')].mine
         /\ events'[Len(events')].len < 11) =>
          (UNCHANGED accVars /\ pc' = "replay")]_vars
  /\ [](pc \in {"replay", "done"} => OperationsMatchEvents(operations))
  /\ [](FoundResult =>
          /\ result.operations = operations
          /\ OperationsMatchEvents(result.operations)
          /\ result.summary.total_operations = Cardinality(WellFormedIdx))

\* C27 witness: a found result of a wallet with schedules whose archive
\* holds a tuple of fewer than 11 fields between two well-formed events, and
\* whose finished timeline has more points than there are operations.
C27_Witness ==
  /\ ExtendedWithVesting
  /\ \E i, j, k \in 1..Len(events) :
       /\ i < j
       /\ j < k
       /\ i \in WellFormedIdx
       /\ events[j].mine
       /\ events[j].len < 11
       /\ k \in WellFormedIdx
  /\ Len(result.operations) = 2
  /\ Len(result.timeline) > Len(result.operations) + 1

\* C28: every schedule of the schedule set has a locked amount, an unlock
\* period and an unlock rate that are positive, and no two schedules have
\* the same locked amount; so the division by the period in
\* calculateLockedAmount and the division by the rate in the unlock
\* enumeration never divide by zero, and every locked value of a timeline
\* point is a number.
C28_SchedulesArePositiveAndDistinct ==
  pc \in {"replay", "done"} =>
    /\ \A k \in 1..Len(vestingSchedules) :
         /\ vestingSchedules[k].lockedTuna > 0
         /\ vestingSchedules[k].lockedTuna # Infinity
         /\ vestingSchedules[k].unlockPeriodHours > 0
         /\ vestingSchedules[k].unlockRateTuna > 0
         /\ \A j \in 1..Len(vestingSchedules) :
              j # k => vestingSchedules[j].lockedTuna # vestingSchedules[k].lockedTuna
    /\ \A k \in 1..Len(timeline) : IsNum(timeline[k].locked)
    /\ FoundResult =>
         \A k \in 1..Len(result.timeline) : IsNum(result.timeline[k].locked)

\* C28 witness: after set_vesting events with a zero amount, a zero period
\* or a zero rate, and a repeated amount, the set holds two schedules and
\* the lookup has extended the timeline with unlock points.
C28_Witness ==
  /\ ExtendedWithVesting
  /\ \E i \in WellFormedIdx :
       /\ events[i].type_id = 6
       /\ \/ events[i].d_stake = 0
          \/ events[i].unlockPeriodHours = 0
          \/ events[i].unlockRateTuna = 0
  /\ \E k \in 1..Len(result.timeline) : result.timeline[k].kind = "unlock"
  /\ Len(vestingSchedules) = 2

\* C29 (as claimed): error is null whenever data is a found = true result.
C29_FoundDataHasNoError ==
  (pc = "hook" /\ data # NoData /\ data.found) => error = <<>>

\* The call i of loadTimeline has started and has not run to its end.
InFlight(i) == i <= Len(lookups) /\ lookups[i].stage # "done"

\* The call i of loadTimeline has run to its end.
Completed(i) == i <= Len(lookups) /\ lookups[i].stage = "done"

\* The number of fetches the call l has made.
Fetches(l) == Cardinality({k \in 1..Len(l.calls) : l.calls[k] = "fetch"})

\* No timer is pending, every call has run to its end, the last call was
\* made for the current address, and the hook shows loading = false with
\* data or error set.
Settled ==
  /\ timers = {}
  /\ Len(lookups) > 0
  /\ \A i \in 1..Len(lookups) : Completed(i)
  /\ lookups[Len(lookups)].address = Trim(walletAddress)
  /\ ~loading
  /\ data # NoData \/ error # <<>>

\* C30: while the component stays mounted and every fetch settles, every
\* started call of loadTimeline runs to its end (a call is in flight once,
\* from its start to its end, so it is eventually never in flight) and its
\* end sets loading to false; after the last change to a non-empty address the hook reaches, and
\* stays in, a state with loading = false and data or error set by the
\* calls, the last of them made for that address; each call makes one fetch
\* and no call is started for a failed one.
C30_LookupsCompleteWithoutRetry ==
  /\ \A i \in 1..MaxLookups : <>[]~InFlight(i)
  /\ [][\A i \in 1..MaxLookups :
          (InFlight(i) /\ Completed(i)' /\ isMounted) => ~loading']_vars
  /\ \A a \in {b \in AddressInputs : ~IsEmptyAddress(b)} :
       <>[](isMounted /\ walletAddress = a) => <>[]Settled
  /\ [](\A i \in 1..Len(lookups) : Fetches(lookups[i]) = 1)
  /\ [][Len(lookups') > Len(lookups) =>
          /\ Len(lookups') = Len(lookups) + 1
          /\ \E t \in timers : t \notin timers' /\ t.elapsed >= DebounceMs]_vars

\* C30 witness: two calls have run to their end while the component stayed
\* mounted, the first one failed, no call followed the failure but the one
\* of the next address, and the hook is settled.
C30_Witness ==
  /\ pc = "hook"
  /\ isMounted
  /\ Len(lookups) = 2
  /\ Settled
  /\ lookups[1].address # lookups[2].address
  /\ ~Called(lookups[1], "parseWalletTimeline")
  /\ Called(lookups[2], "parseWalletTimeline")

====
